---- MODULE Spec2Model ----
(***************************************************************************)
(* Model of the multi-class Dice evaluator of src/masks_evaluation.py:     *)
(* prepare_prediction, dice_single, dice_total and evaluate_results, with  *)
(* the five module-level accumulators n_liver .. n_bones.                  *)
(*                                                                         *)
(* Numbers.  numpy computes in float64; the model computes the same        *)
(* expressions in exact arithmetic.  A float is a pair <<num, den>> in     *)
(* lowest terms with den > 0; <<0, 0>> is NaN and <<1, 0>> is +Inf, the    *)
(* two values numpy produces for 0/0 and x/0.  A standard deviation is a   *)
(* square root, so np.std yields a value of the form                       *)
(*     mul * (rat + sqrt(irr[1]) + ... + sqrt(irr[k]))                     *)
(* kept as the record [rat, irr, mul]; a radicand that is a perfect square *)
(* is folded into rat.  Rounding error of float64 is not modelled.         *)
(*                                                                         *)
(* Arrays.  A 2-D array is a function on a grid of pixels <<row, col>>;    *)
(* an (H, W, 6) tensor maps each pixel to a function on the channels 0..5. *)
(* The ground-truth channel true[:, :, c] is numeric 0/1 (uint8, as        *)
(* explode_img builds it); the mask pred == c is boolean.                  *)
(***************************************************************************)
EXTENDS Integers, Sequences, FiniteSets, TLC

VARIABLES
    n_liver, n_bladder, n_lungs, n_kidneys, n_bones,  \* module globals, lines 3-7
    pc,            \* position: "idle", "loop", "done", "error"; "call"/"returned" for a direct call
    calls,         \* number of evaluate_results calls started in this process
    len_pred, len_true,    \* len(list_pred), len(list_true) of the running call
    list_pred, list_true,  \* the elements of the two arguments the loop has read so far
    i,             \* loop index of evaluate_results
    pred, true,    \* locals of the loop body, lines 74-76
    dices, dice,
    dice_liver_total, dice_bladder_total, dice_lungs_total,
    dice_kidneys_total, dice_bones_total,
    out,           \* lines printed by the running (or last) call
    err,           \* exception that ended the call, "none" otherwise
    arg, ret,      \* argument and return value of a direct call of one function
    cal_samples, batchsize,  \* dataset_utils.cal_samples and args.batchsize in main
    preds, j,      \* main's prediction list and inner loop index (its true and i are above)
    batch_x, batch_y, predictions  \* main's x, y and predictions, evaluate.py lines 64-65

vars == <<n_liver, n_bladder, n_lungs, n_kidneys, n_bones, pc, calls, len_pred, len_true,
          list_pred, list_true, i, pred, true, dices, dice, dice_liver_total,
          dice_bladder_total, dice_lungs_total, dice_kidneys_total, dice_bones_total,
          out, err, arg, ret, cal_samples, batchsize, preds, j, batch_x, batch_y,
          predictions>>

accs == <<n_liver, n_bladder, n_lungs, n_kidneys, n_bones>>

locals == <<len_pred, len_true, list_pred, list_true, i, pred, true, dices, dice,
            dice_liver_total, dice_bladder_total, dice_lungs_total, dice_kidneys_total,
            dice_bones_total, out, err>>

mainlocals == <<cal_samples, batchsize, preds, j, batch_x, batch_y, predictions>>

(***************************************************************************)
(* Bounds of the model.                                                    *)
(***************************************************************************)
MaxLen == 2     \* longest argument list of evaluate_results
MaxCalls == 2   \* evaluate_results calls per process
MaskLen == 3    \* width of the 1 x MaskLen masks given to dice_single directly
TotalLen == 2   \* width of the 1 x TotalLen images given to dice_total directly
MaxScore == 2   \* channel scores given to prepare_prediction directly are 0..MaxScore

(***************************************************************************)
(* Class index mapping, src/scores_losses.py lines 10-15.                  *)
(***************************************************************************)
Background == 0
Liver == 1
Bladder == 2
Lungs == 3
Kidneys == 4
Bones == 5
NumClasses == 6

Channels == 0 .. (NumClasses - 1)
Organs == {Liver, Bladder, Lungs, Kidneys, Bones}

Grid(h, w) == (1 .. h) \X (1 .. w)
\* the evaluated samples are 2 x 2 images, the size of the spec's end-to-end scenario
Shape == <<2, 2>>
Pixels == Grid(Shape[1], Shape[2])

(***************************************************************************)
(* float64 values in exact arithmetic.                                     *)
(***************************************************************************)
RECURSIVE Gcd(_, _)
Gcd(a, b) == IF b = 0 THEN a ELSE Gcd(b, a % b)

Abs(a) == IF a < 0 THEN -a ELSE a
Sgn(a) == IF a < 0 THEN -1 ELSE IF a = 0 THEN 0 ELSE 1

Norm(a, b) ==
    LET g == Gcd(Abs(a), Abs(b))
    IN  IF b < 0 THEN <<(-a) \div g, (-b) \div g>> ELSE <<a \div g, b \div g>>

Q(a) == <<a, 1>>
NaN == <<0, 0>>
Inf == <<1, 0>>
IsNaN(x) == x = NaN
IsFinite(x) == x[2] # 0

FAdd(x, y) ==
    IF IsNaN(x) \/ IsNaN(y) THEN NaN
    ELSE IF ~IsFinite(x) /\ ~IsFinite(y) THEN (IF x = y THEN x ELSE NaN)
    ELSE IF ~IsFinite(x) THEN x
    ELSE IF ~IsFinite(y) THEN y
    ELSE LET l == (x[2] \div Gcd(x[2], y[2])) * y[2]
         IN  Norm(x[1] * (l \div x[2]) + y[1] * (l \div y[2]), l)

FNeg(x) == <<-x[1], x[2]>>
FSub(x, y) == FAdd(x, FNeg(y))

FMul(x, y) ==
    IF IsNaN(x) \/ IsNaN(y) THEN NaN
    ELSE IF ~IsFinite(x) \/ ~IsFinite(y)
         THEN (IF x[1] = 0 \/ y[1] = 0 THEN NaN ELSE <<Sgn(x[1]) * Sgn(y[1]), 0>>)
    ELSE LET g1 == Gcd(Abs(x[1]), y[2])
             g2 == Gcd(Abs(y[1]), x[2])
         IN  Norm((x[1] \div g1) * (y[1] \div g2), (x[2] \div g2) * (y[2] \div g1))

\* numpy true division: x/0 is +-Inf, 0/0 is NaN, no exception is raised
FDiv(x, y) ==
    IF IsNaN(x) \/ IsNaN(y) THEN NaN
    ELSE IF ~IsFinite(y) THEN (IF IsFinite(x) THEN Q(0) ELSE NaN)
    ELSE IF y[1] = 0 THEN <<Sgn(x[1]), 0>>
    ELSE IF ~IsFinite(x) THEN <<Sgn(x[1]) * Sgn(y[1]), 0>>
    ELSE FMul(x, Norm(y[2], y[1]))

FLess(x, y) == x[1] * y[2] < y[1] * x[2]

RECURSIVE SqrtSearch(_, _, _)
SqrtSearch(a, lo, hi) ==
    IF lo >= hi THEN lo
    ELSE LET mid == (lo + hi + 1) \div 2
         IN  IF mid <= a \div mid THEN SqrtSearch(a, mid, hi) ELSE SqrtSearch(a, lo, mid - 1)

ISqrt(a) == IF a = 0 THEN 0 ELSE SqrtSearch(a, 1, a)
IsSquare(a) == ISqrt(a) * ISqrt(a) = a

(***************************************************************************)
(* Values with square roots: mul * (rat + SUM sqrt(irr[k])).               *)
(***************************************************************************)
SVal(rat, irr, mul) == [rat |-> rat, irr |-> irr, mul |-> mul]
SNaN == SVal(NaN, <<>>, Q(1))
SInf == SVal(Inf, <<>>, Q(1))
SIsNaN(s) == IsNaN(s.rat)
SIsFinite(s) == IsFinite(s.rat)
SIsZero(s) == s.rat = Q(0) /\ s.irr = <<>>

\* square root of a finite float x >= 0
Sqrt(x) ==
    IF IsSquare(x[1]) /\ IsSquare(x[2])
    THEN SVal(<<ISqrt(x[1]), ISqrt(x[2])>>, <<>>, Q(1))
    ELSE SVal(Q(0), <<x>>, Q(1))

\* sum of two np.std results (both unscaled)
SAdd(s, t) ==
    IF SIsNaN(s) \/ SIsNaN(t) THEN SNaN
    ELSE SVal(FAdd(s.rat, t.rat), s.irr \o t.irr, Q(1))

\* s / n for an integer n >= 0, numpy semantics on n = 0
SDiv(s, n) ==
    IF SIsNaN(s) THEN SNaN
    ELSE IF ~SIsFinite(s) THEN s
    ELSE IF n = 0 THEN (IF SIsZero(s) THEN SNaN ELSE SInf)
    ELSE SVal(s.rat, s.irr, FDiv(s.mul, Q(n)))

\* s * k for an integer k > 0
SMul(s, k) ==
    IF ~SIsFinite(s) THEN s ELSE SVal(s.rat, s.irr, FMul(s.mul, Q(k)))

(***************************************************************************)
(* numpy reductions.                                                       *)
(***************************************************************************)
RECURSIVE SumOver(_, _)
SumOver(a, S) ==
    IF S = {} THEN 0
    ELSE LET p == CHOOSE q \in S : TRUE IN a[p] + SumOver(a, S \ {p})

\* np.sum of an integer array
NpSum(a) == SumOver(a, DOMAIN a)

RECURSIVE SumList(_, _)
SumList(xs, k) == IF k = 0 THEN Q(0) ELSE FAdd(SumList(xs, k - 1), xs[k])

\* np.sum of a list of floats; 0.0 for the empty list
NpSumList(xs) == SumList(xs, Len(xs))

\* np.mean of a list of floats; NaN (with a warning) for the empty list
NpMean(xs) == FDiv(NpSumList(xs), Q(Len(xs)))

RECURSIVE SqDevSum(_, _, _)
SqDevSum(xs, m, k) ==
    IF k = 0 THEN Q(0)
    ELSE FAdd(SqDevSum(xs, m, k - 1), FMul(FSub(xs[k], m), FSub(xs[k], m)))

NpVarSample(xs) == FDiv(SqDevSum(xs, NpMean(xs), Len(xs)), Q(Len(xs) - 1))

\* the variance under the square root of np.std: mean(abs(x - x.mean()) ** 2)
NpVar(xs) == FDiv(SqDevSum(xs, NpMean(xs), Len(xs)), Q(Len(xs)))

\* np.std of a list of floats; NaN (with a warning) for the empty list
NpStd(xs) == IF Len(xs) = 0 THEN SNaN ELSE Sqrt(NpVar(xs))

(***************************************************************************)
(* prepare_prediction, lines 19-22.                                        *)
(***************************************************************************)
RECURSIVE ArgMaxScanLast(_, _, _)
ArgMaxScanLast(v, c, best) ==
    IF c = NumClasses THEN best
    ELSE ArgMaxScanLast(v, c + 1, IF v[c] >= v[best] THEN c ELSE best)

NpArgMaxLast(v) == ArgMaxScanLast(v, 1, 0)

RECURSIVE ArgMaxScan(_, _, _)
ArgMaxScan(v, c, best) ==
    IF c = NumClasses THEN best
    ELSE ArgMaxScan(v, c + 1, IF v[c] > v[best] THEN c ELSE best)

\* np.argmax along the last axis: the first index holding the maximum
NpArgMax(v) == ArgMaxScan(v, 1, 0)

AsUint8(x) == x % 256

PreparePrediction(p) == [px \in DOMAIN p |-> AsUint8(NpArgMax(p[px]))]

(***************************************************************************)
(* explode_img, lines 12-16: the one-hot tensor of a label image.          *)
(***************************************************************************)
ExplodeImg(img) ==
    [px \in DOMAIN img |-> [c \in Channels |-> IF img[px] = c THEN 1 ELSE 0]]

(***************************************************************************)
(* dice_single, lines 25-28.  p is a boolean mask, t a 0/1 array.          *)
(***************************************************************************)
BoolToInt(b) == IF b THEN 1 ELSE 0

DiceSingleNoSmooth(p, t) ==
    LET intersection == NpSum([px \in DOMAIN p |-> BoolToInt(p[px]) * t[px]])
        union == NpSum([px \in DOMAIN p |-> BoolToInt(p[px]) + t[px]])
    IN  FDiv(Q(2 * intersection), Q(union))

DiceSingleJaccard(p, t) ==
    LET intersection == NpSum([px \in DOMAIN p |-> BoolToInt(p[px]) * t[px]])
        union == NpSum([px \in DOMAIN p |-> BoolToInt(p[px]) + t[px]])
    IN  FDiv(Q(intersection + 1), Q(union + 1))

DiceSingle(p, t) ==
    LET intersection == NpSum([px \in DOMAIN p |-> BoolToInt(p[px]) * t[px]])
        union == NpSum([px \in DOMAIN p |-> BoolToInt(p[px]) + t[px]])
    IN  FDiv(Q(2 * intersection + 1), Q(union + 1))

(***************************************************************************)
(* dice_total, lines 31-62.                                                *)
(***************************************************************************)
\* pred == c
MaskEq(p, c) == [px \in DOMAIN p |-> p[px] = c]

\* true[:, :, c]
Channel(t, c) == [px \in DOMAIN t |-> t[px][c]]

\* lines 40-45: the ground-truth pixel count of class c
ClassWeight(t, c) == NpSum(Channel(t, c))

\* lines 33-38
ClassDice(p, t, c) == DiceSingle(MaskEq(p, c), Channel(t, c))

\* lines 58-62 with the background class counted like an organ; d0 and w0 are
\* the background's Dice and weight
DiceTotalReturnWithBackground(d0, w0, d, w) ==
    <<FDiv(FAdd(FAdd(FAdd(FAdd(FAdd(FAdd(FMul(Q(w0), d0),
                                         FMul(Q(w[Liver]), d[Liver])),
                                    FMul(Q(w[Bladder]), d[Bladder])),
                               FMul(Q(w[Lungs]), d[Lungs])),
                          FMul(Q(w[Kidneys]), d[Kidneys])),
                     FMul(Q(w[Bones]), d[Bones])), Q(1)),
           Q(w0 + w[Liver] + w[Bladder] + w[Lungs] + w[Kidneys] + w[Bones] + 1)),
      FMul(d[Liver], Q(w[Liver])), FMul(d[Bladder], Q(w[Bladder])),
      FMul(d[Lungs], Q(w[Lungs])), FMul(d[Kidneys], Q(w[Kidneys])),
      FMul(d[Bones], Q(w[Bones]))>>

DiceTotalWithBackground(p, t) ==
    DiceTotalReturnWithBackground(
        ClassDice(p, t, Background), ClassWeight(t, Background),
        <<ClassDice(p, t, Liver), ClassDice(p, t, Bladder), ClassDice(p, t, Lungs),
          ClassDice(p, t, Kidneys), ClassDice(p, t, Bones)>>,
        <<ClassWeight(t, Liver), ClassWeight(t, Bladder), ClassWeight(t, Lungs),
          ClassWeight(t, Kidneys), ClassWeight(t, Bones)>>)

\* lines 58-62 with the five Dice values returned unweighted
DiceTotalReturnUnweighted(d, w) ==
    <<FDiv(FAdd(FAdd(FAdd(FAdd(FAdd(FMul(Q(w[Liver]), d[Liver]),
                                    FMul(Q(w[Bladder]), d[Bladder])),
                               FMul(Q(w[Lungs]), d[Lungs])),
                          FMul(Q(w[Kidneys]), d[Kidneys])),
                     FMul(Q(w[Bones]), d[Bones])), Q(1)),
           Q(w[Liver] + w[Bladder] + w[Lungs] + w[Kidneys] + w[Bones] + 1)),
      d[Liver], d[Bladder], d[Lungs], d[Kidneys], d[Bones]>>

\* lines 58-62: the returned 6-tuple, from d = <<dice_liver, ..., dice_bones>> and
\* w = <<liver_w, ..., bones_w>>
DiceTotalReturn(d, w) ==
    <<FDiv(FAdd(FAdd(FAdd(FAdd(FAdd(FMul(Q(w[Liver]), d[Liver]),
                                    FMul(Q(w[Bladder]), d[Bladder])),
                               FMul(Q(w[Lungs]), d[Lungs])),
                          FMul(Q(w[Kidneys]), d[Kidneys])),
                     FMul(Q(w[Bones]), d[Bones])), Q(1)),
           Q(w[Liver] + w[Bladder] + w[Lungs] + w[Kidneys] + w[Bones] + 1)),
      FMul(d[Liver], Q(w[Liver])), FMul(d[Bladder], Q(w[Bladder])),
      FMul(d[Lungs], Q(w[Lungs])), FMul(d[Kidneys], Q(w[Kidneys])),
      FMul(d[Bones], Q(w[Bones]))>>

\* lines 31-62: the return value of dice_total
DiceTotal(p, t) ==
    DiceTotalReturn(
        <<ClassDice(p, t, Liver), ClassDice(p, t, Bladder), ClassDice(p, t, Lungs),
          ClassDice(p, t, Kidneys), ClassDice(p, t, Bones)>>,
        <<ClassWeight(t, Liver), ClassWeight(t, Bladder), ClassWeight(t, Lungs),
          ClassWeight(t, Kidneys), ClassWeight(t, Bones)>>)

AccumulateAssign(n, w) == w

\* lines 47-56: n_<organ> += <organ>_w
Accumulate(n, w) == n + w

(***************************************************************************)
(* Inputs of evaluate_results: the samples a caller may pass.  Label       *)
(* images are built for any H x W; a ground truth is the one-hot tensor of *)
(* a label image, a prediction a tensor of channel scores.                 *)
(***************************************************************************)
Uniform(c) == [px \in Pixels |-> c]

\* labels k, k+1, ... in row-major order, wrapping at the number of classes
Pattern(k) == [px \in Pixels |-> (k + (px[1] - 1) * Shape[2] + (px[2] - 1)) % NumClasses]

\* scores with every channel from img[px] upwards tied at the maximum
Tied(img) == [px \in DOMAIN img |-> [c \in Channels |-> IF c >= img[px] THEN 1 ELSE 0]]

EvalTruths ==
    {ExplodeImg(Uniform(Background)), ExplodeImg(Uniform(Liver)), ExplodeImg(Pattern(2))}

EvalPreds ==
    {Tied(Uniform(Background)), ExplodeImg(Uniform(Liver)), Tied(Pattern(1))}

(***************************************************************************)
(* Printed lines.  A text line has no values; a value line keeps the two   *)
(* arguments of its format string: a float and a standard deviation.       *)
(***************************************************************************)
divider == "------------------------------"

TextLine(s) == [label |-> s, vals |-> <<>>]
ValueLine(s, m, sd) == [label |-> s, vals |-> <<m, sd>>]

\* '%.2f' % x: the printed number in hundredths, rounded half to even
Fmt2(x) ==
    IF IsNaN(x) THEN [txt |-> "nan", h |-> 0]
    ELSE IF ~IsFinite(x) THEN [txt |-> "inf", h |-> 0]
    ELSE LET a == 100 * Abs(x[1])
             q == a \div x[2]
             r == a % x[2]
             up == 2 * r > x[2] \/ (2 * r = x[2] /\ q % 2 = 1)
         IN  [txt |-> "num", h |-> Sgn(x[1]) * (IF up THEN q + 1 ELSE q)]

\* '%.2f' % s for a standard deviation whose value is rational
SFmt2(s) == Fmt2(FMul(s.mul, s.rat))

(***************************************************************************)
(* evaluate_results, lines 65-111.                                         *)
(***************************************************************************)
\* main of evaluate.py is not running
NoMain ==
    /\ cal_samples = 0 /\ batchsize = 0
    /\ preds = <<>> /\ j = 0
    /\ batch_x = <<>> /\ batch_y = <<>> /\ predictions = <<>>

Init ==
    /\ n_liver = 0 /\ n_bladder = 0 /\ n_lungs = 0 /\ n_kidneys = 0 /\ n_bones = 0
    /\ pc = "idle"
    /\ calls = 0
    /\ len_pred = 0 /\ len_true = 0
    /\ list_pred = <<>> /\ list_true = <<>>
    /\ i = 0
    /\ pred = <<>> /\ true = <<>>
    /\ dices = <<>> /\ dice = Q(0)
    /\ dice_liver_total = <<>> /\ dice_bladder_total = <<>> /\ dice_lungs_total = <<>>
    /\ dice_kidneys_total = <<>> /\ dice_bones_total = <<>>
    /\ out = <<>>
    /\ err = "none"
    /\ arg = <<>> /\ ret = <<>>
    /\ NoMain

\* lines 65-72: entry with two argument lists of the chosen lengths.  The element
\* values are fixed when the loop reads them; the code looks at none earlier.
Call(lp, lt) ==
    /\ pc \in {"idle", "done", "error"}
    /\ calls < MaxCalls
    /\ calls' = calls + 1
    /\ len_pred' = lp /\ len_true' = lt
    /\ list_pred' = <<>> /\ list_true' = <<>>
    /\ i' = 0
    /\ pred' = <<>> /\ true' = <<>>
    /\ dices' = <<>> /\ dice' = Q(0)
    /\ dice_liver_total' = <<>> /\ dice_bladder_total' = <<>> /\ dice_lungs_total' = <<>>
    /\ dice_kidneys_total' = <<>> /\ dice_bones_total' = <<>>
    /\ out' = <<>>
    /\ err' = "none"
    /\ pc' = "loop"
    /\ UNCHANGED <<mainlocals, accs, arg, ret>>

\* lines 47-56 of dice_total: the five globals grow by the sample's pixel counts
DiceTotalGlobals(t) ==
    /\ n_liver' = Accumulate(n_liver, ClassWeight(t, Liver))
    /\ n_bladder' = Accumulate(n_bladder, ClassWeight(t, Bladder))
    /\ n_lungs' = Accumulate(n_lungs, ClassWeight(t, Lungs))
    /\ n_kidneys' = Accumulate(n_kidneys, ClassWeight(t, Kidneys))
    /\ n_bones' = Accumulate(n_bones, ClassWeight(t, Bones))

\* lines 73-85: one iteration on the sample (p, t) at index i
LoopBody(p, t) ==
    /\ pc = "loop"
    /\ i < len_pred
    /\ i < len_true
    /\ list_pred' = Append(list_pred, p)
    /\ list_true' = Append(list_true, t)
    /\ pred' = PreparePrediction(p)
    /\ true' = t
    /\ \E r \in {DiceTotal(PreparePrediction(p), t)} :
           /\ DiceTotalGlobals(t)
           /\ dice_liver_total' = Append(dice_liver_total, r[2])
           /\ dice_bladder_total' = Append(dice_bladder_total, r[3])
           /\ dice_lungs_total' = Append(dice_lungs_total, r[4])
           /\ dice_kidneys_total' = Append(dice_kidneys_total, r[5])
           /\ dice_bones_total' = Append(dice_bones_total, r[6])
           /\ dice' = FAdd(dice, r[1])
           /\ dices' = Append(dices, r[1])
    /\ i' = i + 1
    /\ UNCHANGED <<mainlocals, pc, calls, len_pred, len_true, out, err, arg, ret>>

\* lines 74-75: list_pred[i] exists, list_true[i] does not: IndexError
LoopIndexError(p) ==
    /\ pc = "loop"
    /\ i < len_pred
    /\ i >= len_true
    /\ list_pred' = Append(list_pred, p)
    /\ pred' = p
    /\ pc' = "error"
    /\ err' = "IndexError"
    /\ UNCHANGED <<mainlocals, accs, calls, len_pred, len_true, list_true, i, true, dices, dice,
                   dice_liver_total, dice_bladder_total, dice_lungs_total,
                   dice_kidneys_total, dice_bones_total, out, arg, ret>>

\* the denominator of lines 98-99 and 102
OrganWeights == n_liver + n_bladder + n_lungs + n_kidneys + n_bones

StdOrgansPerOrgan ==
    SAdd(SAdd(SAdd(SAdd(SDiv(NpStd(dice_liver_total), n_liver),
                        SDiv(NpStd(dice_bladder_total), n_bladder)),
                   SDiv(NpStd(dice_lungs_total), n_lungs)),
              SDiv(NpStd(dice_kidneys_total), n_kidneys)),
         SDiv(NpStd(dice_bones_total), n_bones))

\* lines 97-99
StdOrgans ==
    SDiv(SAdd(SAdd(SAdd(SAdd(NpStd(dice_liver_total), NpStd(dice_bladder_total)),
                        NpStd(dice_lungs_total)), NpStd(dice_kidneys_total)),
              NpStd(dice_bones_total)),
         OrganWeights)

\* lines 101-102, before the factor 100
MeanOrgans ==
    FDiv(FAdd(FAdd(FAdd(FAdd(NpSumList(dice_liver_total), NpSumList(dice_bladder_total)),
                        NpSumList(dice_lungs_total)), NpSumList(dice_kidneys_total)),
              NpSumList(dice_bones_total)),
         Q(OrganWeights))

OrganLineMasked(name, contribs, n) ==
    ValueLine(name,
              IF n = 0 THEN Q(0) ELSE FMul(FDiv(NpSumList(contribs), Q(n)), Q(100)),
              IF n = 0 THEN SVal(Q(0), <<>>, Q(1)) ELSE SMul(SDiv(NpStd(contribs), n), 100))

\* lines 106-110: one organ's line
OrganLine(name, contribs, n) ==
    ValueLine(name,
              FMul(FDiv(NpSumList(contribs), Q(n)), Q(100)),
              SMul(SDiv(NpStd(contribs), n), 100))

\* lines 87-111: the loop is over, the report is printed and the call returns
Report ==
    /\ pc = "loop"
    /\ i >= len_pred
    /\ out' = <<TextLine(divider),
                TextLine("Global Dice:"),
                ValueLine("Mean on slices", FMul(NpMean(dices), Q(100)), SMul(NpStd(dices), 100)),
                ValueLine("Weighted Mean on organs", FMul(MeanOrgans, Q(100)), SMul(StdOrgans, 100)),
                TextLine(divider),
                TextLine("Organs Dices:"),
                OrganLine("Liver", dice_liver_total, n_liver),
                OrganLine("Bladder", dice_bladder_total, n_bladder),
                OrganLine("Lungs", dice_lungs_total, n_lungs),
                OrganLine("Kidneys", dice_kidneys_total, n_kidneys),
                OrganLine("Bones", dice_bones_total, n_bones),
                TextLine(divider)>>
    /\ pc' = "done"
    /\ UNCHANGED <<mainlocals, accs, calls, len_pred, len_true, list_pred, list_true, i,
                   pred, true,
                   dices, dice, dice_liver_total, dice_bladder_total, dice_lungs_total,
                   dice_kidneys_total, dice_bones_total, err, arg, ret>>

Next ==
    \/ \E lp \in 0 .. MaxLen, lt \in 0 .. MaxLen : Call(lp, lt)
    \/ \E p \in EvalPreds, t \in EvalTruths : LoopBody(p, t)
    \/ \E p \in EvalPreds : LoopIndexError(p)
    \/ Report

Spec == Init /\ [][Next]_vars

(***************************************************************************)
(* Direct calls of one function on every input of a bounded domain.        *)
(***************************************************************************)
Fresh ==
    /\ n_liver = 0 /\ n_bladder = 0 /\ n_lungs = 0 /\ n_kidneys = 0 /\ n_bones = 0
    /\ pc = "call"
    /\ calls = 0
    /\ len_pred = 0 /\ len_true = 0
    /\ list_pred = <<>> /\ list_true = <<>>
    /\ i = 0
    /\ pred = <<>> /\ true = <<>>
    /\ dices = <<>> /\ dice = Q(0)
    /\ dice_liver_total = <<>> /\ dice_bladder_total = <<>> /\ dice_lungs_total = <<>>
    /\ dice_kidneys_total = <<>> /\ dice_bones_total = <<>>
    /\ out = <<>>
    /\ err = "none"
    /\ ret = <<>>
    /\ NoMain

\* dice_single(pred, true) on a boolean mask and a 0/1 array of shape 1 x MaskLen
InitSingle ==
    /\ Fresh
    /\ arg \in [Grid(1, MaskLen) -> BOOLEAN] \X [Grid(1, MaskLen) -> {0, 1}]

CallDiceSingle ==
    /\ pc = "call"
    /\ ret' = DiceSingle(arg[1], arg[2])
    /\ pc' = "returned"
    /\ UNCHANGED <<mainlocals, accs, calls, locals, arg>>

SpecSingle == InitSingle /\ [][CallDiceSingle]_vars

\* dice_total(pred, true) on a class mask and a one-hot tensor of shape 1 x TotalLen
LabelImages == [Grid(1, TotalLen) -> Channels]

InitTotal ==
    /\ Fresh
    /\ arg \in LabelImages \X {ExplodeImg(img) : img \in LabelImages}

CallDiceTotal ==
    /\ pc = "call"
    /\ ret' = DiceTotal(arg[1], arg[2])
    /\ DiceTotalGlobals(arg[2])
    /\ pc' = "returned"
    /\ UNCHANGED <<mainlocals, calls, locals, arg>>

SpecTotal == InitTotal /\ [][CallDiceTotal]_vars

\* prepare_prediction(pred) on a 1 x 1 x 6 tensor of scores 0..MaxScore
InitArgmax ==
    /\ Fresh
    /\ arg \in [Grid(1, 1) -> [Channels -> 0 .. MaxScore]]

CallPreparePrediction ==
    /\ pc = "call"
    /\ ret' = PreparePrediction(arg)
    /\ pc' = "returned"
    /\ UNCHANGED <<mainlocals, accs, calls, locals, arg>>

SpecArgmax == InitArgmax /\ [][CallPreparePrediction]_vars

(***************************************************************************)
(* main of evaluate.py, lines 59-72: the collection loop, the assertion    *)
(* and the call of evaluate_results.  The data generator and the network   *)
(* are outside the repository's evaluation code: a sample is named by its  *)
(* index in the generator's dataset, its input row is <<"x", n>>, its      *)
(* ground truth <<"y", n>> and the network's prediction for it <<"p", n>>. *)
(***************************************************************************)
MaxSamples == 6   \* dataset_utils.cal_samples is 0..MaxSamples
MaxBatch == 3     \* args.batchsize is 0..MaxBatch

\* line 59 and 64: batch k of a generator built with batch_size = batchsize holds
\* the batchsize samples k * batchsize .. k * batchsize + batchsize - 1
GetItem(k) ==
    <<[r \in 1 .. batchsize |-> <<"x", k * batchsize + r - 1>>],
      [r \in 1 .. batchsize |-> <<"y", k * batchsize + r - 1>>]>>

\* line 65: model.predict gives one prediction per input row, in order
Predict(rows) == [r \in 1 .. Len(rows) |-> <<"p", rows[r][2]>>]

NumBatchesCeil == (cal_samples + batchsize - 1) \div batchsize

\* line 63: the argument of range, for batchsize # 0
NumBatches == cal_samples \div batchsize

InitMain ==
    /\ n_liver = 0 /\ n_bladder = 0 /\ n_lungs = 0 /\ n_kidneys = 0 /\ n_bones = 0
    /\ pc = "outer"
    /\ calls = 0
    /\ len_pred = 0 /\ len_true = 0
    /\ list_pred = <<>> /\ list_true = <<>>
    /\ i = 0
    /\ pred = <<>> /\ true = <<>>
    /\ dices = <<>> /\ dice = Q(0)
    /\ dice_liver_total = <<>> /\ dice_bladder_total = <<>> /\ dice_lungs_total = <<>>
    /\ dice_kidneys_total = <<>> /\ dice_bones_total = <<>>
    /\ out = <<>>
    /\ err = "none"
    /\ arg = <<>> /\ ret = <<>>
    /\ cal_samples \in 0 .. MaxSamples
    /\ batchsize \in 0 .. MaxBatch
    /\ preds = <<>> /\ j = 0
    /\ batch_x = <<>> /\ batch_y = <<>> /\ predictions = <<>>

mainframe == <<accs, calls, len_pred, len_true, list_pred, list_true, pred, dices, dice,
               dice_liver_total, dice_bladder_total, dice_lungs_total,
               dice_kidneys_total, dice_bones_total, out, ret, cal_samples, batchsize>>

\* line 63: cal_samples // 0 raises ZeroDivisionError
MainZeroDivision ==
    /\ pc = "outer"
    /\ batchsize = 0
    /\ pc' = "error"
    /\ err' = "ZeroDivisionError"
    /\ UNCHANGED <<mainframe, i, true, arg, preds, j, batch_x, batch_y, predictions>>

\* lines 63-65: the outer loop takes batch i and predicts it
MainBatch ==
    /\ pc = "outer"
    /\ batchsize # 0
    /\ i < NumBatches
    /\ batch_x' = GetItem(i)[1]
    /\ batch_y' = GetItem(i)[2]
    /\ predictions' = Predict(batch_x')
    /\ j' = 0
    /\ pc' = "inner"
    /\ UNCHANGED <<mainframe, i, true, arg, preds, err>>

\* lines 66-68: one pass of the inner loop
MainAppend ==
    /\ pc = "inner"
    /\ j < batchsize
    /\ preds' = Append(preds, predictions[j + 1])
    /\ true' = Append(true, batch_y[j + 1])
    /\ j' = j + 1
    /\ UNCHANGED <<mainframe, i, pc, arg, err, batch_x, batch_y, predictions>>

\* line 66: the inner range is used up, the outer loop goes on
MainBatchDone ==
    /\ pc = "inner"
    /\ j >= batchsize
    /\ i' = i + 1
    /\ pc' = "outer"
    /\ UNCHANGED <<mainframe, true, arg, err, preds, j, batch_x, batch_y, predictions>>

\* line 70, reached when the outer range is used up
MainAssert ==
    /\ pc = "outer"
    /\ batchsize # 0
    /\ i >= NumBatches
    /\ IF Len(preds) = Len(true)
       THEN pc' = "asserted" /\ err' = err
       ELSE pc' = "error" /\ err' = "AssertionError"
    /\ UNCHANGED <<mainframe, i, true, arg, preds, j, batch_x, batch_y, predictions>>

\* line 72: evaluate_results(preds, true) is called
MainEvaluate ==
    /\ pc = "asserted"
    /\ arg' = <<preds, true>>
    /\ pc' = "evaluate"
    /\ UNCHANGED <<mainframe, i, true, err, preds, j, batch_x, batch_y, predictions>>

NextMain ==
    \/ MainZeroDivision
    \/ MainBatch
    \/ MainAppend
    \/ MainBatchDone
    \/ MainAssert
    \/ MainEvaluate

SpecMain == InitMain /\ [][NextMain]_vars

(***************************************************************************)
(* Properties.  The reference values are computed from sets of pixels and  *)
(* from the textbook formulas, independently of the array code above.      *)
(***************************************************************************)
\* the pixels where a boolean mask / a 0-1 array / a class mask / a one-hot channel is set
OnPixels(p) == {px \in DOMAIN p : p[px]}
OnePixels(t) == {px \in DOMAIN t : t[px] = 1}
PredPixels(p, c) == {px \in DOMAIN p : p[px] = c}
TruePixels(t, c) == {px \in DOMAIN t : t[px][c] = 1}

\* (2 |A /\ B| + 1) / (|A| + |B| + 1)
RefDice(A, B) ==
    FDiv(Q(2 * Cardinality(A \cap B) + 1), Q(Cardinality(A) + Cardinality(B) + 1))

RefWeight(t, c) == Cardinality(TruePixels(t, c))
RefContrib(p, t, c) ==
    FMul(Q(RefWeight(t, c)), RefDice(PredPixels(p, c), TruePixels(t, c)))

RECURSIVE RefSum(_, _)
\* sum of f[k] for k in S, f float-valued
RefSum(f, S) ==
    IF S = {} THEN Q(0)
    ELSE LET k == CHOOSE x \in S : TRUE IN FAdd(f[k], RefSum(f, S \ {k}))

OrganSeq == <<Liver, Bladder, Lungs, Kidneys, Bones>>

Returned == pc = "returned"

\* C7: dice_single returns exactly 1 whenever the predicted and the true mask are
\* identical, whether both are empty or share N >= 1 pixels
C7_IdenticalMasksGiveOne ==
    (Returned /\ OnPixels(arg[1]) = OnePixels(arg[2])) => ret = Q(1)

C7_Witness ==
    /\ Returned
    /\ OnPixels(arg[1]) = OnePixels(arg[2])
    /\ Cardinality(OnPixels(arg[1])) >= 2
    /\ ret = Q(1)

SingleInputs == [Grid(1, MaskLen) -> BOOLEAN] \X [Grid(1, MaskLen) -> {0, 1}]
TotalCount(a) == Cardinality(OnPixels(a[1])) + Cardinality(OnePixels(a[2]))
Overlap(a) == Cardinality(OnPixels(a[1]) \cap OnePixels(a[2]))

\* C8: for disjoint nonempty masks dice_single lies strictly between 0 and 1, and
\* among mask pairs of equal total pixel count a smaller intersection gives a
\* strictly smaller Dice
C8_DisjointAndMonotone ==
    Returned =>
        /\ (Overlap(arg) = 0 /\ OnPixels(arg[1]) # {} /\ OnePixels(arg[2]) # {})
               => (FLess(Q(0), ret) /\ FLess(ret, Q(1)))
        /\ \A b \in SingleInputs :
               (TotalCount(b) = TotalCount(arg) /\ Overlap(b) < Overlap(arg))
                   => FLess(DiceSingle(b[1], b[2]), ret)

C8_Witness ==
    /\ Returned
    /\ Overlap(arg) = 1
    /\ \E b \in SingleInputs :
           /\ TotalCount(b) = TotalCount(arg)
           /\ Overlap(b) = 0 /\ OnPixels(b[1]) # {} /\ OnePixels(b[2]) # {}
           /\ FLess(Q(0), DiceSingle(b[1], b[2]))
           /\ FLess(DiceSingle(b[1], b[2]), ret)
    /\ FLess(ret, Q(1))

\* C9: prepare_prediction maps every pixel to the index of its maximal channel, the
\* lowest such index on a tie, and every label is an integer in 0..5
C9_ArgmaxLowestIndex ==
    Returned =>
        \A px \in DOMAIN arg :
            /\ ret[px] \in Channels
            /\ \A c \in Channels : arg[px][c] <= arg[px][ret[px]]
            /\ \A c \in Channels : c < ret[px] => arg[px][c] < arg[px][ret[px]]

C9_Witness ==
    /\ Returned
    /\ \E px \in DOMAIN arg :
           /\ ret[px] = Bladder
           /\ arg[px][Kidneys] = arg[px][Bladder]
           /\ arg[px][Bones] = arg[px][Bladder]
           /\ arg[px][Liver] < arg[px][Bladder]

\* C6: dice_total returns (sum over the organ classes 1..5 of w_c * d_c + 1) /
\* (sum over 1..5 of w_c + 1) and the five products d_c * w_c in the order liver,
\* bladder, lungs, kidneys, bones; the background class enters neither sum
C6_DiceTotalFormula ==
    Returned =>
        LET p == arg[1]
            t == arg[2]
            contrib == [c \in Organs |-> RefContrib(p, t, c)]
            weight == [c \in Organs |-> Q(RefWeight(t, c))]
        IN  /\ ret[1] = FDiv(FAdd(RefSum(contrib, Organs), Q(1)),
                             FAdd(RefSum(weight, Organs), Q(1)))
            /\ \A k \in 1 .. 5 : ret[k + 1] = contrib[OrganSeq[k]]

C6_Witness ==
    /\ Returned
    /\ RefWeight(arg[2], Background) = 1
    /\ RefWeight(arg[2], Kidneys) = 1
    /\ PredPixels(arg[1], Background) # TruePixels(arg[2], Background)
    /\ ret[5] = Q(1)
    /\ ret[1] = Q(1)

(***************************************************************************)
(* Properties of evaluate_results.                                         *)
(***************************************************************************)
\* the class mask of a prediction: the lowest channel holding the largest score
RefDecode(p) ==
    [px \in DOMAIN p |->
        CHOOSE c \in Channels :
            /\ \A d \in Channels : p[px][d] <= p[px][c]
            /\ \A d \in Channels : d < c => p[px][d] < p[px][c]]

Done == pc = "done"

\* the samples the running call has scored are 1 .. i
Scored == 1 .. i

RefContribAt(k, c) == RefContrib(RefDecode(list_pred[k]), list_true[k], c)

\* this dataset's sum of organ weight x organ Dice, and of organ weight
RefDatasetContrib ==
    RefSum([kc \in Scored \X Organs |-> RefContribAt(kc[1], kc[2])], Scored \X Organs)
RefDatasetWeight ==
    RefSum([kc \in Scored \X Organs |-> Q(RefWeight(list_true[kc[1]], kc[2]))],
           Scored \X Organs)

\* population variance as mean of squares minus square of the mean
RefVar(f) ==
    LET n == Q(Cardinality(DOMAIN f))
        m == FDiv(RefSum(f, DOMAIN f), n)
        m2 == FDiv(RefSum([k \in DOMAIN f |-> FMul(f[k], f[k])], DOMAIN f), n)
    IN  FSub(m2, FMul(m, m))

RefStd(f) == IF DOMAIN f = {} THEN SNaN ELSE Sqrt(RefVar(f))

RECURSIVE RefContribSeq(_, _)
\* organ c's contributions d * w of the samples 1 .. k
RefContribSeq(c, k) ==
    IF k = 0 THEN <<>> ELSE Append(RefContribSeq(c, k - 1), RefContribAt(k, c))

RefOrganStd(c) == RefStd(RefContribSeq(c, i))

Acc(c) ==
    CASE c = Liver -> n_liver
      [] c = Bladder -> n_bladder
      [] c = Lungs -> n_lungs
      [] c = Kidneys -> n_kidneys
      [] c = Bones -> n_bones

\* the report line of organ c, and the "Weighted Mean on organs" line
OrganOut(c) == out[6 + c]
WeightedOut == out[4]

Hundredths(h) == [txt |-> "num", h |-> h]

\* C1: called with lists of different lengths, evaluate_results fails with an
\* error before any computation: no sample is scored (so no accumulator changes),
\* no report line is printed and the call never completes
C1_MismatchFailsBeforeComputation ==
    (pc \in {"loop", "done", "error"} /\ len_pred # len_true) =>
        /\ i = 0 /\ dices = <<>>
        /\ out = <<>>
        /\ pc # "done"

\* C2: whenever an organ pixel occurs in the dataset, the reported weighted mean
\* organ Dice is the dataset's sum of organ weight x organ Dice over the dataset's
\* sum of organ weight (as a percentage)
C2_WeightedMeanOverDataset ==
    (Done /\ RefDatasetWeight # Q(0)) =>
        WeightedOut.vals[1] = FMul(FDiv(RefDatasetContrib, RefDatasetWeight), Q(100))

AllPerfect ==
    \A k \in Scored : \A px \in Pixels : list_true[k][px][RefDecode(list_pred[k])[px]] = 1

LiverOccurs == \E k \in Scored : RefWeight(list_true[k], Liver) > 0

LiverCounts == [k \in Scored |-> Q(RefWeight(list_true[k], Liver))]

SpecScenario ==
    /\ calls = 1
    /\ list_true = <<ExplodeImg(Uniform(Liver)), ExplodeImg(Uniform(Background))>>

\* C3 as stated: a perfectly predicted dataset with liver in it, evaluated first in
\* the process, has every per-sample Dice 1 and reports liver 100.00 +- 0.00
C3_PerfectGivesZeroStd ==
    (Done /\ calls = 1 /\ AllPerfect /\ LiverOccurs) =>
        /\ \A k \in Scored : dices[k] = Q(1)
        /\ Fmt2(OrganOut(Liver).vals[1]) = Hundredths(10000)
        /\ OrganOut(Liver).vals[2].irr = <<>>
        /\ SFmt2(OrganOut(Liver).vals[2]) = Hundredths(0)

\* C3 amended: on a perfectly predicted dataset with liver in it every per-sample
\* Dice is 1; the liver mean is 100 x the dataset's liver pixels over the accumulated
\* liver weight, printed 100.00 when the dataset is the first of the process; the
\* liver standard deviation is 100 x the population standard deviation of the
\* per-sample liver pixel counts over the accumulated liver weight, which prints
\* 50.00 in the spec's scenario
C3_PerfectLiverReport ==
    (Done /\ AllPerfect /\ LiverOccurs) =>
        /\ \A k \in Scored : dices[k] = Q(1)
        /\ OrganOut(Liver).vals[1]
               = FMul(FDiv(RefSum(LiverCounts, Scored), Q(n_liver)), Q(100))
        /\ calls = 1 => Fmt2(OrganOut(Liver).vals[1]) = Hundredths(10000)
        /\ OrganOut(Liver).vals[2] = SMul(SDiv(RefStd(LiverCounts), n_liver), 100)
        /\ SpecScenario =>
               /\ OrganOut(Liver).vals[2].irr = <<>>
               /\ SFmt2(OrganOut(Liver).vals[2]) = Hundredths(5000)

C3_Witness ==
    /\ Done /\ AllPerfect /\ LiverOccurs
    /\ SpecScenario
    /\ dices = <<Q(1), Q(1)>>
    /\ Fmt2(OrganOut(Liver).vals[1]) = Hundredths(10000)
    /\ SFmt2(OrganOut(Liver).vals[2]) = Hundredths(5000)

\* C4: the five totals start at 0; a step that scores a sample adds that sample's
\* ground-truth pixel count of each organ to the organ's total, and no other step
\* (the start and the end of evaluate_results included) changes a total
C4_AccumulatorsOnlyGrow ==
    /\ (n_liver = 0 /\ n_bladder = 0 /\ n_lungs = 0 /\ n_kidneys = 0 /\ n_bones = 0)
    /\ [][IF i' = i + 1
          THEN /\ n_liver' = n_liver + RefWeight(true', Liver)
               /\ n_bladder' = n_bladder + RefWeight(true', Bladder)
               /\ n_lungs' = n_lungs + RefWeight(true', Lungs)
               /\ n_kidneys' = n_kidneys + RefWeight(true', Kidneys)
               /\ n_bones' = n_bones + RefWeight(true', Bones)
          ELSE UNCHANGED accs]_vars

C4_Witness ==
    /\ calls = 2
    /\ Done
    /\ i = 2
    /\ FLess(RefSum(LiverCounts, Scored), Q(n_liver))
    /\ FLess(Q(0), RefSum(LiverCounts, Scored))

\* C5: the report is always completed without an exception; an organ whose
\* accumulated weight is zero is reported with NaN mean and NaN standard deviation,
\* an organ with a positive weight has a finite mean, and a weight is zero only if
\* the organ occurs in no ground truth that was scored
C5_ZeroWeightGivesNaN ==
    /\ pc = "error" => (err = "IndexError" /\ len_pred > len_true)
    /\ Done =>
        /\ err = "none"
        /\ Len(out) = 12
        /\ \A c \in Organs :
               /\ OrganOut(c).label = <<"Liver", "Bladder", "Lungs", "Kidneys", "Bones">>[c]
               /\ Acc(c) = 0 =>
                      /\ IsNaN(OrganOut(c).vals[1])
                      /\ SIsNaN(OrganOut(c).vals[2])
                      /\ \A k \in Scored : RefWeight(list_true[k], c) = 0
               /\ Acc(c) > 0 => IsFinite(OrganOut(c).vals[1])
        /\ ~IsFinite(WeightedOut.vals[1]) => \A c \in Organs : Acc(c) = 0

C5_Witness ==
    /\ Done
    /\ i = 2
    /\ n_liver > 0 /\ n_bones = 0
    /\ IsNaN(OrganOut(Bones).vals[1]) /\ SIsNaN(OrganOut(Bones).vals[2])
    /\ OrganOut(Liver).vals[1] = Q(100)
    /\ IsFinite(WeightedOut.vals[1])

\* C10: the reported organ-wide standard deviation is the sum of the five organs'
\* population standard deviations of their per-sample contributions d * w, divided
\* by the sum of the five accumulated weights; each organ's own standard deviation
\* is that organ's standard deviation divided by its accumulated weight
C10_StdFormula ==
    Done =>
        \E sd \in {<<RefOrganStd(Liver), RefOrganStd(Bladder), RefOrganStd(Lungs),
                      RefOrganStd(Kidneys), RefOrganStd(Bones)>>} :
            /\ WeightedOut.vals[2]
                   = SMul(SDiv(SAdd(SAdd(SAdd(SAdd(sd[Liver], sd[Bladder]), sd[Lungs]),
                                         sd[Kidneys]), sd[Bones]),
                               n_liver + n_bladder + n_lungs + n_kidneys + n_bones), 100)
            /\ \A c \in Organs : OrganOut(c).vals[2] = SMul(SDiv(sd[c], Acc(c)), 100)

C10_Witness ==
    /\ Done
    /\ calls = 2
    /\ i = 2
    /\ \A c \in Organs : Acc(c) > 0
    /\ ~SIsZero(RefOrganStd(Liver))
    /\ ~SIsZero(RefOrganStd(Bones))
    /\ SIsFinite(WeightedOut.vals[2])

\* the ground truth t holds background pixels only
NoOrgan(t) == \A c \in Organs : TruePixels(t, c) = {}

\* C11: for a ground truth without any organ pixel dice_total returns the score 1
\* and five zero contributions and leaves the five accumulators as they were,
\* whatever the predicted mask is; and for any ground truth, an organ that is
\* absent from it adds nothing to the accumulators, contributes exactly 0, and the
\* score is the smoothed ratio over the other organs alone, so that the pixels
\* predicted for the absent organ do not enter the score through its own term
C11_AbsentOrganHasNoTerm ==
    /\ [](Returned =>
            /\ NoOrgan(arg[2]) => ret = <<Q(1), Q(0), Q(0), Q(0), Q(0), Q(0)>>
            /\ \A c \in Organs :
                   TruePixels(arg[2], c) = {} =>
                       /\ ret[c + 1] = Q(0)
                       /\ ret[1] = FDiv(FAdd(RefSum([o \in Organs |->
                                                       RefContrib(arg[1], arg[2], o)],
                                                   Organs \ {c}), Q(1)),
                                        FAdd(RefSum([o \in Organs |->
                                                       Q(RefWeight(arg[2], o))],
                                                   Organs \ {c}), Q(1))))
    /\ [][pc' = "returned" =>
             /\ NoOrgan(arg[2]) => UNCHANGED accs
             /\ \A c \in Organs :
                    TruePixels(arg[2], c) = {} => accs'[c] = accs[c]]_vars

C11_Witness ==
    /\ Returned
    /\ NoOrgan(arg[2])
    /\ PredPixels(arg[1], Background) = {}
    /\ Cardinality({arg[1][px] : px \in DOMAIN arg[1]}) >= 2
    /\ ret[1] = Q(1)
    /\ \A k \in 2 .. 6 : ret[k] = Q(0)

\* the collection loop of main is over: no further batch fits into cal_samples
Collected ==
    \/ pc \in {"asserted", "evaluate"}
    \/ pc = "outer" /\ (i + 1) * batchsize > cal_samples

\* C12: in main, for every cal_samples >= 0 and batchsize >= 1, no exception is
\* raised; once the collection loop is over, the prediction list and the ground-truth
\* list both hold (cal_samples // batchsize) * batchsize entries, the k-th entries of
\* the two lists belong to the same sample, which is sample number index of batch
\* number batch in batch-then-index order; the assertion therefore passes and
\* evaluate_results gets the two lists; the remaining cal_samples mod batchsize
\* samples are in neither list
C12_CollectedInFullBatches ==
    batchsize >= 1 =>
        /\ err = "none" /\ pc # "error"
        /\ Collected =>
               /\ Len(preds) = (cal_samples \div batchsize) * batchsize
               /\ Len(true) = (cal_samples \div batchsize) * batchsize
               /\ Len(preds) = Len(true)
               /\ cal_samples - Len(preds) = cal_samples % batchsize
               /\ \A batch \in 0 .. MaxSamples, index \in 0 .. MaxBatch :
                      (index < batchsize /\ (batch + 1) * batchsize <= cal_samples) =>
                          /\ preds[batch * batchsize + index + 1]
                                 = <<"p", batch * batchsize + index>>
                          /\ true[batch * batchsize + index + 1]
                                 = <<"y", batch * batchsize + index>>
               /\ \A n \in Len(preds) .. cal_samples - 1, k \in 1 .. Len(preds) :
                      preds[k][2] # n /\ true[k][2] # n
        /\ pc = "evaluate" => arg = <<preds, true>>

C12_Witness ==
    /\ pc = "evaluate"
    /\ batchsize >= 2
    /\ cal_samples \div batchsize >= 2
    /\ cal_samples % batchsize # 0
    /\ Len(arg[1]) = cal_samples - 1
    /\ Len(arg[2]) = cal_samples - 1

====
